---- MODULE Spec2Model ----
(***************************************************************************)
(* SLA engine of the helpdesk backend (backend/modules/sla, backend/ti).   *)
(*                                                                         *)
(* Instants are naive datetimes, counted in minutes since Friday           *)
(* 2026-02-13 00:00.  Day d is the date 2026-02-13 + d days.  Durations    *)
(* returned by ServicoMetricasSLA are hours rounded to 4 decimals and are  *)
(* kept in units of 0.0001 h; percentages rounded to 1 decimal are kept in *)
(* tenths of a percent.  Durations of CalculadorSLA, which does not round  *)
(* before comparing, are kept in minutes.  Limits are whole hours.         *)
(***************************************************************************)
EXTENDS Integers, Sequences, FiniteSets, TLC

VARIABLES
    now,        \* the clock read by datetime.utcnow() / now_brazil_naive()
    chamados,   \* table chamado: id -> row
    pausas,     \* table sla_pausa: set of rows
    configs,    \* table sla_configuracao: set of rows
    feriados,   \* table sla_feriado: days of the active holidays
    horarios,   \* table sla_horario_comercial: set of rows
    info,       \* table sla_info_chamado: chamado_id -> the stored result
    resp,       \* the response of the last request served
    execucoes,  \* the callers that are inside CalculadorSLA.recalcular_todos
    entrada,    \* the arguments of a direct call of the business-hours functions
    saida,      \* what those calls returned
    cache,      \* MemoryCache._storage of the global CacheManager: key -> entry
    cache_feriados, \* _cache_feriados of each live CalculadorSLA instance
    colacao     \* how the database compares sla_configuracao.prioridade

vars == <<now, chamados, pausas, configs, feriados, horarios, info, resp, execucoes,
          entrada, saida, cache, cache_feriados, colacao>>

(* the caches kept in memory *)
caches == <<cache, cache_feriados>>

(* the direct calls of the business-hours functions *)
chamada == <<entrada, saida>>

(* the tables that the requests of the ticket API do not write *)
calendario == <<configs, feriados, horarios>>

----------------------------------------------------------------------------
(* Bounds of the model *)

NumChamados == 2      \* tickets of the aggregation specification
MaxPausas == 2        \* rows of sla_pausa
MaxTicks == 1         \* clock steps of the single-ticket specification
MaxTicksAgregado == 2 \* clock steps of the aggregation specification
MaxConfigId == 3      \* ids of sla_configuracao

(* Python's None for a nullable datetime column *)
None == -1

(* The instants (minutes) at which the clock may be read; the clock moves to any
   later one of the first MaxTicks + 1 of them: Monday 2026-02-16 09:00, 10:40,
   11:00, Tuesday 09:00, Monday 09:20, 16:40, Tuesday 12:00, Wednesday 09:00 *)
Instantes == <<4860, 4960, 4980, 6300, 4880, 5320, 6480, 7740>>
NowInit == Instantes[1]

(* Open instants of the tickets that exist at the start: Friday 2026-02-13
   17:00 (before the cutover), Monday 2026-02-16 07:00 and 09:00 *)
Aberturas == {1020, 4740, 4860}

Prioridades == {"Alta", "Normal"}

ChamadoIds == DOMAIN chamados

(* Rows of sla_configuracao the tables at the start are built from *)
CfgNormal == [id |-> 1, prioridade |-> "Normal", tempo_resposta_horas |-> 2,
              tempo_resolucao_horas |-> 8, percentual_risco |-> 80, ativo |-> TRUE]
CfgAlta == [id |-> 2, prioridade |-> "Alta", tempo_resposta_horas |-> 1,
            tempo_resolucao_horas |-> 2, percentual_risco |-> 80, ativo |-> TRUE]
ConfigTables == {{}, {CfgNormal}, {CfgAlta}}

(* Holiday tables at the start: none *)
FeriadoTables == {{}}

----------------------------------------------------------------------------
(* Program constants *)

SLA_DATA_INICIO == 4320
HORA_INICIO == 480
HORA_FIM == 1080
STATUS_PAUSADOS == {"Aguardando"}
STATUS_ATIVOS == {"Aberto", "Em atendimento"}
STATUS_FINAIS == {"Concluído", "Expirado"}
ALLOWED_STATUSES == {"Aberto", "Em atendimento", "Aguardando", "Concluído", "Expirado"}

(* calculator.py has its own status sets *)
STATUS_PAUSA == {"Aguardando", "Em análise"}
STATUS_CONTA == {"Aberto", "Em atendimento"}
STATUS_FINAL == {"Concluído", "Expirado"}

----------------------------------------------------------------------------
(* Helpers *)

Max(a, b) == IF a >= b THEN a ELSE b
Min(a, b) == IF a <= b THEN a ELSE b

(* x or y, for nullable datetimes *)
Or(x, y) == IF x # None THEN x ELSE y

(* date.weekday(): 0 = Monday; day 0 is a Friday *)
weekday(d) == (d + 4) % 7

(* round(n / d) half to even, for n >= 0, d > 0 *)
RoundHalfEven(n, d) ==
    LET q == n \div d
        r == n % d
    IN  IF 2 * r < d THEN q
        ELSE IF 2 * r > d THEN q + 1
        ELSE IF q % 2 = 0 THEN q ELSE q + 1

(* str.lower() on the priority names in use *)
lower(s) ==
    CASE s = "Alta" -> "alta"
      [] s = "ALTA" -> "alta"
      [] s = "Normal" -> "normal"
      [] s = "NORMAL" -> "normal"
      [] OTHER -> s

----------------------------------------------------------------------------
(* metrics.py: business hours *)

(* a week with no weekend *)
eh_dia_util_todo_dia(d) == TRUE

eh_dia_util(d) == weekday(d) < 5

(* a loop that counts the whole window of each business day of the span *)
RECURSIVE minutos_uteis_sem_recorte(_, _, _)
minutos_uteis_sem_recorte(current, inicio, fim) ==
    IF current > fim \div 1440 THEN 0
    ELSE (IF eh_dia_util(current) THEN HORA_FIM - HORA_INICIO ELSE 0)
         + minutos_uteis_sem_recorte(current + 1, inicio, fim)

(* the while loop of _horas_uteis, in minutes *)
RECURSIVE minutos_uteis(_, _, _)
minutos_uteis(current, inicio, fim) ==
    IF current > fim \div 1440 THEN 0
    ELSE LET j_ini == Max(current * 1440 + HORA_INICIO, inicio)
             j_fim == Min(current * 1440 + HORA_FIM, fim)
             hoje == IF eh_dia_util(current) /\ j_ini < j_fim THEN j_fim - j_ini ELSE 0
         IN  hoje + minutos_uteis(current + 1, inicio, fim)

(* round(minutes / 60, 4) in units of 0.0001 h: minutes * 10000 / 60 is never
   half-way between two integers, so rounding is to the nearest *)
round4(minutos) == (minutos * 1000 + 3) \div 6

horas_uteis(inicio, fim) ==
    IF inicio = None \/ fim = None THEN 0
    ELSE LET ini == IF inicio < SLA_DATA_INICIO THEN SLA_DATA_INICIO ELSE inicio
         IN  IF ini >= fim THEN 0
             ELSE round4(minutos_uteis(ini \div 1440, ini, fim))

(* a pause counted by the clock on the wall *)
pausa_horas_relogio(p, inicio, fim, agora) ==
    LET p_fim_real == Or(p.fim, agora)
        i2 == Max(p.inicio, inicio)
        f2 == Min(p_fim_real, fim)
    IN  IF i2 < f2 THEN round4(f2 - i2) ELSE 0

(* business hours of one pause clipped to [inicio, fim] *)
pausa_horas(p, inicio, fim, agora) ==
    LET p_fim_real == Or(p.fim, agora)
        i2 == Max(p.inicio, inicio)
        f2 == Min(p_fim_real, fim)
    IN  IF i2 < f2 THEN horas_uteis(i2, f2) ELSE 0

RECURSIVE soma_pausado(_, _, _, _)
soma_pausado(ps, inicio, fim, agora) ==
    IF ps = {} THEN 0
    ELSE LET p == CHOOSE x \in ps : TRUE
         IN  pausa_horas(p, inicio, fim, agora) + soma_pausado(ps \ {p}, inicio, fim, agora)

horas_uteis_com_pausas(inicio, fim, ps, agora) ==
    LET bruto == horas_uteis(inicio, fim)
        pausado == soma_pausado(ps, inicio, fim, agora)
    IN  [trab |-> Max(0, bruto - pausado), paus |-> pausado]

----------------------------------------------------------------------------
(* State *)

NovoChamado(p, a) ==
    [status |-> "Aberto", prioridade |-> p, data_abertura |-> a,
     data_primeira_resposta |-> None, data_conclusao |-> None,
     cancelado_em |-> None, deletado_em |-> None]

(* a status update that stamps the first response at every departure from
   "Aberto" *)
status_atualizado_sobrescreve(ch, novo, agora) ==
    LET prev == ch.status
        c1 == [ch EXCEPT !.status = novo]
        c2 == IF prev = "Aberto" /\ novo # "Aberto"
              THEN [c1 EXCEPT !.data_primeira_resposta = agora] ELSE c1
    IN  IF novo = "Concluído" THEN [c2 EXCEPT !.data_conclusao = agora] ELSE c2

(* chamados.py: PATCH /chamados/{id}/status; the row after lines 1267-1272 *)
status_atualizado(ch, novo, agora) ==
    LET prev == ch.status
        c1 == [ch EXCEPT !.status = novo]
        c2 == IF prev = "Aberto" /\ novo # "Aberto" /\ ch.data_primeira_resposta = None
              THEN [c1 EXCEPT !.data_primeira_resposta = agora] ELSE c1
    IN  IF novo = "Concluído" THEN [c2 EXCEPT !.data_conclusao = agora] ELSE c2

PausasDe(id) == {p \in pausas : p.chamado_id = id}
PausasAbertas(id) == {p \in PausasDe(id) : p.fim = None}

SemResposta == [op |-> "nenhuma"]

(* The response of a request that changes data: its body is not modelled *)
Ok == [op |-> "ok"]

(* no direct call of the business-hours functions *)
SemEntrada == [inicio |-> None, fim |-> None]
SemSaida ==
    [metricas |-> None, calculador |-> None, com_pausas |-> [trab |-> None, paus |-> None]]

(* One ticket, just opened, followed through its whole life *)
Init ==
    /\ now = NowInit
    /\ chamados \in [{1} -> {NovoChamado("Alta", a) : a \in Aberturas \ {1020}}]
    /\ pausas = {}
    /\ configs \in ConfigTables
    /\ feriados \in FeriadoTables
    /\ horarios = {}
    /\ info = <<>>
    /\ resp = SemResposta
    /\ execucoes = {}
    /\ entrada = SemEntrada
    /\ saida = SemSaida
    /\ cache = <<>>
    /\ cache_feriados = <<>>
    /\ colacao = "ci"

(* Several tickets, for the aggregates: ticket i was opened with priority
   PrioridadeDe(i) and has had at most one status update, at NowInit (which
   opened a pause if the status is a pausing one) *)
PrioridadeDe(i) == IF i % 2 = 1 THEN "Alta" ELSE "Normal"

InitAgregado ==
    /\ now = NowInit
    /\ \E ab \in [1..NumChamados -> {1020, 4860}], st \in [1..NumChamados -> ALLOWED_STATUSES] :
        /\ \A i \in 2..NumChamados : ab[i] = 4860
        /\ chamados = [i \in 1..NumChamados |->
                          status_atualizado(NovoChamado(PrioridadeDe(i), ab[i]), st[i], NowInit)]
        /\ pausas = {[id |-> i, chamado_id |-> i, inicio |-> NowInit, fim |-> None,
                       duracao_horas |-> 0, tipo |-> "status"] :
                          i \in {j \in 1..NumChamados : st[j] \in STATUS_PAUSADOS}}
    /\ configs \in {{CfgNormal}, {CfgAlta}}
    /\ feriados \in FeriadoTables
    /\ horarios = {}
    /\ info = <<>>
    /\ resp = SemResposta
    /\ execucoes = {}
    /\ entrada = SemEntrada
    /\ saida = SemSaida
    /\ cache = <<>>
    /\ cache_feriados = <<>>
    /\ colacao = "ci"

----------------------------------------------------------------------------
(* metrics.py: ServicoMetricasSLA *)

SemConfig == [id |-> 0]

(* _configs()[key]: the dict built from the active rows, a later row replacing
   an earlier one with the same lower-cased priority *)
configs_get(key) ==
    LET rows == {c \in configs : c.ativo /\ lower(c.prioridade) = key}
    IN  IF rows = {} THEN SemConfig
        ELSE CHOOSE c \in rows : \A d \in rows : d.id <= c.id

(* the value returned for "no result" (None) *)
SemResultado == [tipo |-> "None"]

(* data_ref of calcular_sla_chamado *)
data_ref(c, agora) ==
    IF c.status \notin STATUS_FINAIS THEN agora
    ELSE Or(c.data_conclusao, Or(c.cancelado_em, agora))

(* round(trab / lim * 100, 1) if lim > 0 else 0, in tenths of a percent *)
percentual(trab, lim) == IF lim > 0 THEN RoundHalfEven(trab, lim * 10) ELSE 0

(* a resolution clock whose at-risk flag does not exclude breached *)
relogio_resolucao_sem_exclusao(c, cfg, ps, agora) ==
    LET h == horas_uteis_com_pausas(c.data_abertura, data_ref(c, agora), ps, agora)
        lim == cfg.tempo_resolucao_horas
        pct == percentual(h.trab, lim)
        venc == h.trab >= lim * 10000 /\ c.status \notin STATUS_FINAIS
        risco == pct >= cfg.percentual_risco * 10 /\ c.status \notin STATUS_FINAIS
    IN  [trab |-> h.trab, paus |-> h.paus, lim |-> lim, pct |-> pct,
         em_dia |-> (~venc /\ ~risco), em_risco |-> risco, vencida |-> venc]

(* a resolution clock whose flags do not look at the status *)
relogio_resolucao_sem_final(c, cfg, ps, agora) ==
    LET h == horas_uteis_com_pausas(c.data_abertura, data_ref(c, agora), ps, agora)
        lim == cfg.tempo_resolucao_horas
        pct == percentual(h.trab, lim)
        venc == h.trab >= lim * 10000
        risco == pct >= cfg.percentual_risco * 10 /\ ~venc
    IN  [trab |-> h.trab, paus |-> h.paus, lim |-> lim, pct |-> pct,
         em_dia |-> (~venc /\ ~risco), em_risco |-> risco, vencida |-> venc]

(* the resolution clock: lines 122-126 *)
relogio_resolucao(c, cfg, ps, agora) ==
    LET h == horas_uteis_com_pausas(c.data_abertura, data_ref(c, agora), ps, agora)
        lim == cfg.tempo_resolucao_horas
        pct == percentual(h.trab, lim)
        venc == h.trab >= lim * 10000 /\ c.status \notin STATUS_FINAIS
        risco == pct >= cfg.percentual_risco * 10 /\ ~venc /\ c.status \notin STATUS_FINAIS
    IN  [trab |-> h.trab, paus |-> h.paus, lim |-> lim, pct |-> pct,
         em_dia |-> (~venc /\ ~risco), em_risco |-> risco, vencida |-> venc]

(* the response clock: lines 128-138 *)
relogio_resposta(c, cfg, ps, agora) ==
    LET lim == cfg.tempo_resposta_horas
    IN  IF c.data_primeira_resposta # None
        THEN LET h == horas_uteis_com_pausas(c.data_abertura, c.data_primeira_resposta, ps, agora)
                 venc == h.trab > lim * 10000
             IN  [trab |-> h.trab, paus |-> h.paus, lim |-> lim, pct |-> percentual(h.trab, lim),
                  em_dia |-> ~venc, em_risco |-> FALSE, vencida |-> venc]
        ELSE LET h == horas_uteis_com_pausas(c.data_abertura, data_ref(c, agora), ps, agora)
                 pct == percentual(h.trab, lim)
                 venc == h.trab >= lim * 10000 /\ c.status \notin STATUS_FINAIS
                 risco == pct >= cfg.percentual_risco * 10 /\ ~venc /\ c.status \notin STATUS_FINAIS
             IN  [trab |-> h.trab, paus |-> h.paus, lim |-> lim, pct |-> pct,
                  em_dia |-> (~venc /\ ~risco), em_risco |-> risco, vencida |-> venc]

(* configs.get(key) or configs.get("normal"): lines 104-105 *)
config_do_chamado(c) ==
    LET key == lower(c.prioridade)
    IN  IF configs_get(key) # SemConfig THEN configs_get(key) ELSE configs_get("normal")

calcular_sla_chamado(id, agora) ==
    LET c == chamados[id]
        cfg == config_do_chamado(c)
    IN  IF c.data_abertura = None THEN SemResultado
        ELSE IF c.data_abertura < SLA_DATA_INICIO THEN SemResultado
        ELSE IF cfg = SemConfig THEN SemResultado
        ELSE [tipo |-> "sla", chamado_id |-> id, prioridade |-> c.prioridade,
              status |-> c.status,
              pausado |-> (c.status \in STATUS_PAUSADOS),
              ativo |-> (c.status \in STATUS_ATIVOS),
              resolucao |-> relogio_resolucao(c, cfg, PausasDe(id), agora),
              resposta |-> relogio_resposta(c, cfg, PausasDe(id), agora)]

----------------------------------------------------------------------------
(* calculator.py: CalculadorSLA *)

(* eh_dia_util: not a weekend and not among the active holidays of the year *)
calc_eh_dia_util(d) == weekday(d) < 5 /\ d \notin feriados

(* _carregar_horarios_comerciais()[dia]: the active rows, a later row replacing
   an earlier one of the same weekday; Monday-Friday 08:00-18:00 when the table
   is empty; obter_horario_comercial falls back to 08:00-18:00 for a weekday
   that has no row *)
horario_do_dia(dia_semana) ==
    LET rows == {h \in horarios : h.ativo /\ h.dia_semana = dia_semana}
    IN  IF rows = {} THEN <<HORA_INICIO, HORA_FIM>>
        ELSE LET h == CHOOSE x \in rows : \A y \in rows : y.id <= x.id
             IN  <<h.hora_inicio, h.hora_fim>>

(* the while loop of calcular_horas_uteis, in minutes; times of day are
   minutes since midnight *)
RECURSIVE calc_minutos_uteis(_, _, _)
calc_minutos_uteis(current, data_inicio, data_fim) ==
    IF current > data_fim \div 1440 THEN 0
    ELSE LET hc == horario_do_dia(weekday(current))
             current_time == IF current = data_inicio \div 1440 THEN data_inicio % 1440 ELSE 0
             tempo_inicio == IF current = data_inicio \div 1440
                             THEN Max(current_time, hc[1]) ELSE hc[1]
             tempo_fim == IF current = data_fim \div 1440
                          THEN Min(data_fim % 1440, hc[2]) ELSE hc[2]
             hoje == IF calc_eh_dia_util(current) /\ tempo_inicio < tempo_fim
                     THEN tempo_fim - tempo_inicio ELSE 0
         IN  hoje + calc_minutos_uteis(current + 1, data_inicio, data_fim)

(* the comparison data_inicio >= data_fim of line 142 raises TypeError when
   either side is None: there is no test for None before it *)
TypeError == -2

calcular_horas_uteis(data_inicio, data_fim) ==
    IF data_inicio = None \/ data_fim = None THEN TypeError
    ELSE IF data_inicio >= data_fim THEN 0
    ELSE calc_minutos_uteis(data_inicio \div 1440, data_inicio, data_fim)

(* calcular_tempo_pausado: the wall-clock durations of the closed pauses, in minutes *)
RECURSIVE soma_duracao(_)
soma_duracao(ps) ==
    IF ps = {} THEN 0
    ELSE LET p == CHOOSE x \in ps : TRUE
         IN  p.duracao_horas + soma_duracao(ps \ {p})

calcular_tempo_pausado(id) == soma_duracao({p \in PausasDe(id) : p.fim # None})

(* obter_configuracao_sla: the first active row of exactly this priority *)
obter_configuracao_sla(prioridade) ==
    LET rows == {c \in configs : c.ativo /\ c.prioridade = prioridade}
    IN  IF rows = {} THEN SemConfig
        ELSE CHOOSE c \in rows : \A d \in rows : c.id <= d.id

(* round(minutes / 60, 2) in units of 0.01 h *)
round2(minutos) == (minutos * 10 + 3) \div 6

RelogioVazio ==
    [limite |-> 0, decorrido |-> 0, pausado |-> 0, percentual |-> 0,
     em_risco |-> FALSE, vencida |-> FALSE, em_dia |-> TRUE]

(* _criar_resultado_vazio *)
criar_resultado_vazio ==
    [tipo |-> "vazio", resposta |-> RelogioVazio, resolucao |-> RelogioVazio,
     pausado |-> FALSE, ativo |-> FALSE]

(* one clock of calcular_sla: efetivo and the flags are computed on the
   unrounded values (minutes here); the percentage is rounded to 2 decimals
   (units of 0.01 %) on return *)
calc_relogio(c, id, limite, risco, agora, conta) ==
    LET data_ref_c == IF c.status \in STATUS_FINAL
                      THEN Or(c.data_conclusao, Or(c.cancelado_em, agora))
                      ELSE agora
        decorrido == calcular_horas_uteis(c.data_abertura, data_ref_c)
        pausado == calcular_tempo_pausado(id)
        efetivo == Max(0, decorrido - pausado)
        venc == conta /\ efetivo >= limite * 60
        em_risco == conta /\ ~venc
                    /\ (IF limite > 0 THEN efetivo * 100 >= risco * limite * 60 ELSE 0 >= risco)
    IN  [limite |-> limite, decorrido |-> round2(decorrido), pausado |-> round2(pausado),
         percentual |-> IF limite > 0 THEN RoundHalfEven(efetivo * 500, limite * 3) ELSE 0,
         em_risco |-> em_risco, vencida |-> venc, em_dia |-> (~venc /\ ~em_risco)]

calcular_sla(id, agora) ==
    LET c == chamados[id]
        config == obter_configuracao_sla(c.prioridade)
    IN  IF config = SemConfig THEN criar_resultado_vazio
        ELSE [tipo |-> "sla",
              resposta |->
                  IF c.data_primeira_resposta = None
                  THEN calc_relogio(c, id, config.tempo_resposta_horas,
                                    config.percentual_risco, agora, TRUE)
                  ELSE [RelogioVazio EXCEPT !.limite = config.tempo_resposta_horas],
              resolucao |-> calc_relogio(c, id, config.tempo_resolucao_horas,
                                         config.percentual_risco, agora,
                                         c.status \notin STATUS_FINAL),
              pausado |-> (c.status \in STATUS_PAUSA),
              ativo |-> (c.status \in STATUS_CONTA)]

----------------------------------------------------------------------------
(* The clock *)

TickAte(n) ==
    /\ \E i \in 2..Min(n + 1, Len(Instantes)) :
        /\ Instantes[i] > now
        /\ now' = Instantes[i]
    /\ UNCHANGED <<chamados, pausas, calendario, info, resp, execucoes, chamada, caches,
                 colacao>>

Tick == TickAte(MaxTicks)

TickAgregado == TickAte(MaxTicksAgregado)

----------------------------------------------------------------------------
(* service.py: SlaService.pausar_sla_chamado, as the new contents of sla_pausa *)

NovaPausa(id, tipo) ==
    [id |-> Cardinality(pausas) + 1, chamado_id |-> id, inicio |-> now,
     fim |-> None, duracao_horas |-> 0, tipo |-> tipo]

(* a close that stamps the end and leaves the duration as it was *)
FecharPausa_sem_duracao(p) == [p EXCEPT !.fim = now]

FecharPausa(p) == [p EXCEPT !.fim = now, !.duracao_horas = now - p.inicio]

(* a hook that opens pauses and never closes one *)
pausar_sla_chamado_sem_retomar(id, status) ==
    IF status \in STATUS_PAUSADOS /\ PausasAbertas(id) = {}
    THEN pausas \cup {NovaPausa(id, "status")}
    ELSE pausas

pausar_sla_chamado(id, status) ==
    IF status \in STATUS_PAUSADOS
    THEN IF PausasAbertas(id) = {}
         THEN pausas \cup {NovaPausa(id, "status")}
         ELSE pausas
    ELSE {IF p \in PausasAbertas(id) THEN FecharPausa(p) ELSE p : p \in pausas}

(* core.utils.now_brazil_naive, the clock of chamados.py: the one reference
   time zone of the engine *)
now_brazil_naive == now

(* chamados.py: PATCH /chamados/{id}/status *)
AtualizarStatus(id, novo) ==
    /\ novo \in ALLOWED_STATUSES
    /\ chamados[id].deletado_em = None
    /\ Cardinality(pausas) < MaxPausas \/ novo \notin STATUS_PAUSADOS \/ PausasAbertas(id) # {}
    /\ chamados' = [chamados EXCEPT ![id] = status_atualizado(chamados[id], novo, now_brazil_naive)]
    /\ pausas' = pausar_sla_chamado(id, novo)
    /\ resp' = Ok
    /\ UNCHANGED <<now, calendario, info, execucoes, chamada, caches,
                 colacao>>

(* what pausar_sla_chamado returns: whether it opened or closed a pause *)
pausar_sla_chamado_retorno(id, status) ==
    IF status \in STATUS_PAUSADOS THEN PausasAbertas(id) = {} ELSE PausasAbertas(id) # {}

(* main.py: POST /api/sla/chamado/{id}/pausar?status=... *)
PausarSla(id, status) ==
    /\ Cardinality(pausas) < MaxPausas \/ status \notin STATUS_PAUSADOS \/ PausasAbertas(id) # {}
    /\ pausas' = pausar_sla_chamado(id, status)
    /\ resp' = [op |-> "pausar", chamado_id |-> id, status |-> status,
                alterado |-> pausar_sla_chamado_retorno(id, status)]
    /\ UNCHANGED <<now, chamados, calendario, info, execucoes, chamada, caches,
                 colacao>>

(* routes.py: POST /pausa, a manual pause *)
CriarPausa(id) ==
    /\ Cardinality(pausas) < MaxPausas
    /\ pausas' = pausas \cup {NovaPausa(id, "manual")}
    /\ resp' = Ok
    /\ UNCHANGED <<now, chamados, calendario, info, execucoes, chamada, caches,
                 colacao>>

(* routes.py: POST /pausa/{pausa_id}/retomar, for a pause that exists *)
RetomarPausa(p) ==
    /\ p \in pausas
    /\ IF p.fim # None
       THEN /\ resp' = [op |-> "retomar", status_code |-> 400]
            /\ pausas' = pausas
       ELSE /\ resp' = [op |-> "retomar", status_code |-> 200]
            /\ pausas' = (pausas \ {p}) \cup {FecharPausa(p)}
    /\ UNCHANGED <<now, chamados, calendario, info, execucoes, chamada, caches,
                 colacao>>

(* chamados.py: the soft delete of a ticket *)
DeletarChamado(id) ==
    /\ chamados[id].deletado_em = None
    /\ chamados' = [chamados EXCEPT ![id].deletado_em = now]
    /\ resp' = Ok
    /\ UNCHANGED <<now, pausas, calendario, info, execucoes, chamada, caches,
                 colacao>>

----------------------------------------------------------------------------
(* main.py: GET /api/sla/chamado/{id}, through SlaService.calcular_sla_chamado *)

servico_calcular_sla_chamado(id, agora) ==
    IF id \notin ChamadoIds THEN SemResultado
    ELSE calcular_sla_chamado(id, agora)

(* an endpoint that closes the open pauses of the ticket it evaluates *)
ObterSlaChamado_retomando(id) ==
    /\ resp' = [op |-> "sla_chamado", chamado_id |-> id,
                status_code |-> IF servico_calcular_sla_chamado(id, now) = SemResultado
                                THEN 404 ELSE 200,
                body |-> servico_calcular_sla_chamado(id, now)]
    /\ pausas' = {IF p.chamado_id = id /\ p.fim = None THEN FecharPausa(p) ELSE p :
                     p \in pausas}
    /\ UNCHANGED <<now, chamados, calendario, info, execucoes, chamada, caches,
                 colacao>>

ObterSlaChamado(id) ==
    /\ LET result == servico_calcular_sla_chamado(id, now)
       IN  resp' = [op |-> "sla_chamado", chamado_id |-> id,
                    status_code |-> IF result = SemResultado THEN 404 ELSE 200,
                    body |-> result]
    /\ UNCHANGED <<now, chamados, pausas, calendario, info, execucoes, chamada, caches,
                 colacao>>

----------------------------------------------------------------------------
(* metrics.py: obter_metricas_dashboard.  The averages and their formatted
   texts are not part of the modelled payload. *)

(* a selection that applies the period to the open tickets too *)
dashboard_chamados_so_periodo(data_inicio, data_fim) ==
    {id \in ChamadoIds :
        LET c == chamados[id]
        IN  /\ c.data_abertura >= SLA_DATA_INICIO
            /\ c.deletado_em = None
            /\ c.data_abertura >= data_inicio
            /\ c.data_abertura <= data_fim}

(* the rows selected by the query of lines 185-200 *)
dashboard_chamados(data_inicio, data_fim) ==
    {id \in ChamadoIds :
        LET c == chamados[id]
        IN  /\ c.data_abertura >= SLA_DATA_INICIO
            /\ c.deletado_em = None
            /\ \/ c.status \in (STATUS_ATIVOS \cup STATUS_PAUSADOS)
               \/ /\ c.status \in STATUS_FINAIS
                  /\ c.data_abertura >= data_inicio
                  /\ c.data_abertura <= data_fim}

(* round(n / total * 100, 1) if total > 0 else 0, in tenths of a percent *)
pct_de(n, total) == IF total > 0 THEN RoundHalfEven(n * 1000, total) ELSE 0

(* the loop over the selected tickets: the results that are not None *)
processados_de(selecionados, agora) ==
    {calcular_sla_chamado(id, agora) : id \in selecionados} \ {SemResultado}

(* the buckets and the payload, from the processed results; abertos is the
   number of selected tickets in an active or pausing status *)
metricas_de(processados, abertos, data_inicio, data_fim) ==
    LET pausados == {s \in processados : s.pausado}
        vencidos == {s \in processados : ~s.pausado /\ s.resolucao.vencida}
        em_risco == {s \in processados :
                        ~s.pausado /\ ~s.resolucao.vencida /\ s.resolucao.em_risco}
        total == Cardinality(processados)
        em_dia == total - Cardinality(em_risco) - Cardinality(vencidos)
    IN  [total_chamados |-> total,
         chamados_abertos |-> abertos,
         chamados_em_risco |-> Cardinality(em_risco),
         chamados_vencidos |-> Cardinality(vencidos),
         chamados_pausados |-> Cardinality(pausados),
         percentual_cumprimento |-> pct_de(em_dia, total),
         percentual_em_risco |-> pct_de(Cardinality(em_risco), total),
         percentual_vencidos |-> pct_de(Cardinality(vencidos), total),
         por_prioridade |->
             [p \in {s.prioridade : s \in processados} |->
                 [total |-> Cardinality({s \in processados : s.prioridade = p}),
                  pausados |-> Cardinality({s \in processados :
                                               s.prioridade = p /\ s.pausado}),
                  em_risco |-> Cardinality({s \in processados :
                                               s.prioridade = p /\ s.resolucao.em_risco}),
                  vencidos |-> Cardinality({s \in processados :
                                               s.prioridade = p /\ s.resolucao.vencida})]],
         lista_em_risco |-> {s.chamado_id : s \in em_risco},
         lista_vencidos |-> {s.chamado_id : s \in vencidos},
         lista_pausados |-> {s.chamado_id : s \in pausados},
         periodo_inicio |-> data_inicio,
         periodo_fim |-> data_fim]

(* the number of selected tickets that are open *)
abertos_de(selecionados) ==
    Cardinality({id \in selecionados :
                    chamados[id].status \in (STATUS_ATIVOS \cup STATUS_PAUSADOS)})

(* the period: lines 172-180 *)
periodo_fim(df, agora) == Or(df, agora)
periodo_inicio(di, df, agora) ==
    IF di = None THEN Max(periodo_fim(df, agora) - 30 * 1440, SLA_DATA_INICIO)
    ELSE Max(di, SLA_DATA_INICIO)

obter_metricas_dashboard(di, df, agora) ==
    metricas_de(
        processados_de(dashboard_chamados(periodo_inicio(di, df, agora),
                                          periodo_fim(df, agora)), agora),
        abertos_de(dashboard_chamados(periodo_inicio(di, df, agora),
                                      periodo_fim(df, agora))),
        periodo_inicio(di, df, agora), periodo_fim(df, agora))

(* the periods asked for: the default one, Monday 2026-02-16 08:00-12:00, and
   09:40-12:00 of the same day, which starts after the tickets were opened *)
Periodos == {<<None, None>>, <<4800, 5040>>, <<4900, 5040>>}

ObterDashboard(di, df) ==
    /\ resp' = [op |-> "dashboard", body |-> obter_metricas_dashboard(di, df, now)]
    /\ UNCHANGED <<now, chamados, pausas, calendario, info, execucoes, chamada, caches,
                 colacao>>

----------------------------------------------------------------------------
(* calculator.py: recalcular_todos.  The row it appends to sla_log_calculo,
   which nothing modelled here reads, is left out. *)

recalcular_chamados == {id \in ChamadoIds : chamados[id].deletado_em = None}

recalcular_stats ==
    [total_processados |-> Cardinality(recalcular_chamados),
     em_risco |-> Cardinality({id \in recalcular_chamados : calcular_sla(id, now).resolucao.em_risco}),
     vencidos |-> Cardinality({id \in recalcular_chamados : calcular_sla(id, now).resolucao.vencida}),
     pausados |-> Cardinality({id \in recalcular_chamados : calcular_sla(id, now).pausado})]

(* What one run of recalcular_todos leaves behind.  falhas are the tickets
   whose evaluation raises (a query of calcular_sla that fails, a row it
   cannot handle).  The loop has no handler and the only commit follows it:
   with a failure the exception leaves recalcular_todos, the session is closed
   without a commit and no statistics are returned. *)
recalcular_todos(falhas) ==
    IF falhas = {}
    THEN /\ info' = [id \in (DOMAIN info) \cup recalcular_chamados |->
                        IF id \in recalcular_chamados
                        THEN [resultado |-> calcular_sla(id, now), ultima_atualizacao |-> now]
                        ELSE info[id]]
         /\ resp' = [op |-> "recalcular", body |-> recalcular_stats]
    ELSE /\ info' = info
         /\ resp' = [op |-> "recalcular_erro", status_code |-> 500]

(* POST /recalcular, served from start to end with no other request between *)
RecalcularTodos(falhas) ==
    /\ recalcular_todos(falhas)
    /\ UNCHANGED <<now, chamados, pausas, calendario, execucoes, chamada, caches,
                 colacao>>

(* The callers of recalcular_todos: the job of the scheduler, the manual
   refresh of the scheduler, and the two routes.  None of them takes a lock or
   tests a flag before it starts. *)
Origens == {"scheduler", "manual", "rota_atualizar", "rota_recalcular"}

IniciarAtualizacao(origem) ==
    /\ origem \notin execucoes
    /\ execucoes' = execucoes \cup {origem}
    /\ UNCHANGED <<now, chamados, pausas, calendario, info, resp, chamada, caches,
                 colacao>>

ConcluirAtualizacao(origem, falhas) ==
    /\ origem \in execucoes
    /\ execucoes' = execucoes \ {origem}
    /\ recalcular_todos(falhas)
    /\ UNCHANGED <<now, chamados, pausas, calendario, chamada, caches,
                 colacao>>

----------------------------------------------------------------------------
(* cache_service.py, scheduler.py, routes_otimizadas.py: the cache of the
   aggregates.  Durations are in minutes; a key is the tuple of the parts
   that _make_key joins; a date is the number of its day, which str() maps
   one to one. *)

TTL_METRICAS_GERAIS == 15
TTL_METRICAS_PRIORIDADE == 15
TTL_CHAMADOS_RISCO == 10
TTL_CHAMADOS_VENCIDOS == 10
TTL_DASHBOARD == 15

(* SchedulerSLA.update_interval_minutes *)
update_interval == 15

(* date.today() *)
date_today == now \div 1440

PeriodosDias == {7, 30, 60, 90}

(* the methods the class ServicoMetricasSLA defines *)
MetodosServicoMetricas ==
    {"_configs", "_pausas", "calcular_sla_chamado", "obter_metricas_dashboard"}

(* MemoryCache.get: the value, or None for a key that is absent or expired *)
cache_hit(key) == key \in DOMAIN cache /\ ~(cache[key].expires_at < now)

backend_get(key) == IF cache_hit(key) THEN cache[key].value ELSE None

(* MemoryCache._storage after get(key): an expired entry is deleted *)
storage_apos_get(key) ==
    IF key \in DOMAIN cache /\ cache[key].expires_at < now
    THEN [k \in (DOMAIN cache) \ {key} |-> cache[k]]
    ELSE cache

(* MemoryCache._storage after set(key, value, ttl) on storage c *)
backend_set(key, value, ttl) ==
    [k \in (DOMAIN cache) \cup {key} |->
        IF k = key THEN [value |-> value, expires_at |-> now + ttl] ELSE cache[k]]

chave_metricas_gerais(data_inicio, data_fim) == <<"metricas_gerais", data_inicio, data_fim>>
chave_metricas_prioridade(data_inicio, data_fim) == <<"metricas_prioridade", data_inicio, data_fim>>
chave_chamados_em_risco == <<"chamados_em_risco">>
chave_chamados_vencidos == <<"chamados_vencidos">>
chave_dashboard(data_inicio, data_fim) == <<"dashboard", data_inicio, data_fim>>

(* the TTL each setter of CacheManager passes to the backend *)
ttl_da_chave(k) ==
    CASE k[1] = "metricas_gerais" -> TTL_METRICAS_GERAIS
      [] k[1] = "metricas_prioridade" -> TTL_METRICAS_PRIORIDADE
      [] k[1] = "chamados_em_risco" -> TTL_CHAMADOS_RISCO
      [] k[1] = "chamados_vencidos" -> TTL_CHAMADOS_VENCIDOS
      [] k[1] = "dashboard" -> TTL_DASHBOARD

(* the keys one run of _atualizar_sla sets when it gets to its end *)
ChavesDaAtualizacao ==
    {chave_metricas_gerais(date_today - d, date_today) : d \in PeriodosDias}
        \cup {chave_chamados_em_risco, chave_chamados_vencidos, chave_dashboard(date_today - 30, date_today)}

(* steps 2 to 5 of _atualizar_sla and of atualizar_sla_manualmente: the first
   of them calls servico.obter_metricas_gerais, and a call of a method the
   class does not define raises AttributeError before any set *)
cache_atualizado ==
    IF "obter_metricas_gerais" \in MetodosServicoMetricas
    THEN [k \in (DOMAIN cache) \cup ChavesDaAtualizacao |->
            IF k \in ChavesDaAtualizacao
            THEN [value |-> [cached_at |-> now],
                  expires_at |-> now + ttl_da_chave(k)]
            ELSE cache[k]]
    ELSE cache

atualizacao_falhou(falhas) ==
    falhas # {} \/ "obter_metricas_gerais" \notin MetodosServicoMetricas

(* the clock of the cache: steps of five minutes *)
PassoCache == 5
MaxPassosCache == 4

TickCache ==
    /\ now < NowInit + MaxPassosCache * PassoCache
    /\ now' = now + PassoCache
    /\ UNCHANGED <<chamados, pausas, calendario, info, resp, execucoes, chamada, caches,
                 colacao>>

(* scheduler.py: one run of the job _atualizar_sla, at the start of the
   scheduler and every update_interval minutes after it.  The job answers
   nobody: resp holds what it logged.  recalcular_todos commits before the
   cache is touched; every exception is caught and logged. *)
AtualizarSla(falhas) ==
    /\ (now - NowInit) % update_interval = 0
    /\ info' = IF falhas = {}
               THEN [id \in (DOMAIN info) \cup recalcular_chamados |->
                        IF id \in recalcular_chamados
                        THEN [resultado |-> calcular_sla(id, now), ultima_atualizacao |-> now]
                        ELSE info[id]]
               ELSE info
    /\ cache' = IF falhas = {} THEN cache_atualizado ELSE cache
    /\ resp' = [op |-> "_atualizar_sla", em |-> now, erro |-> atualizacao_falhou(falhas)]
    /\ UNCHANGED <<now, chamados, pausas, calendario, execucoes, chamada, cache_feriados,
                 colacao>>

(* routes_otimizadas.py: POST /sla/cache/atualizar *)
AtualizarSlaManualmente(falhas) ==
    /\ info' = IF falhas = {}
               THEN [id \in (DOMAIN info) \cup recalcular_chamados |->
                        IF id \in recalcular_chamados
                        THEN [resultado |-> calcular_sla(id, now), ultima_atualizacao |-> now]
                        ELSE info[id]]
               ELSE info
    /\ cache' = IF falhas = {} THEN cache_atualizado ELSE cache
    /\ resp' = [op |-> "atualizar_sla_manualmente",
                status_code |-> IF atualizacao_falhou(falhas) THEN 500 ELSE 200]
    /\ UNCHANGED <<now, chamados, pausas, calendario, execucoes, chamada, cache_feriados,
                 colacao>>

(* a read of one key by a cached endpoint: 503 on a miss *)
LerCache(op, key) ==
    /\ cache' = storage_apos_get(key)
    /\ resp' = [op |-> op, key |-> key,
                status_code |-> IF cache_hit(key) THEN 200 ELSE 503]
    /\ UNCHANGED <<now, chamados, pausas, calendario, info, execucoes, chamada, cache_feriados,
                 colacao>>

(* routes_otimizadas.py: GET /sla/cache/metricas?periodo_dias= *)
ObterMetricasCache(periodo_dias) ==
    LerCache("obter_metricas_cache", chave_metricas_gerais(date_today - periodo_dias, date_today))

(* routes_otimizadas.py: GET /sla/cache/chamados/em-risco *)
ObterChamadosEmRiscoCache == LerCache("obter_chamados_em_risco_cache", chave_chamados_em_risco)

(* routes_otimizadas.py: GET /sla/cache/chamados/vencidos *)
ObterChamadosVencidosCache == LerCache("obter_chamados_vencidos_cache", chave_chamados_vencidos)

(* routes_otimizadas.py: GET /sla/cache/dashboard *)
ObterDashboardCache == LerCache("obter_dashboard_cache", chave_dashboard(date_today - 30, date_today))

(* routes_otimizadas.py: POST /sla/cache/limpar, CacheManager.invalidar_tudo *)
LimparCache ==
    /\ cache' = <<>>
    /\ resp' = [op |-> "limpar_cache"]
    /\ UNCHANGED <<now, chamados, pausas, calendario, info, execucoes, chamada, cache_feriados,
                 colacao>>

(* The scheduler and the cached endpoints *)
NextCacheSla ==
    \/ TickCache
    \/ \E falhas \in {{}, {1}} : AtualizarSla(falhas)
    \/ \E falhas \in {{}, {1}} : AtualizarSlaManualmente(falhas)
    \/ \E d \in PeriodosDias : ObterMetricasCache(d)
    \/ ObterChamadosEmRiscoCache
    \/ ObterChamadosVencidosCache
    \/ ObterDashboardCache
    \/ LimparCache

SpecCacheSla == InitAgregado /\ [][NextCacheSla]_vars

(* The class CacheManager by itself, its methods called by some client *)

PeriodosCache == {<<date_today - 7, date_today>>, <<date_today - 30, date_today>>}
ValoresCache == {"m1", "m2"}

InitCacheManager ==
    /\ now = NowInit
    /\ chamados = <<>>
    /\ pausas = {}
    /\ configs = {}
    /\ feriados = {}
    /\ horarios = {}
    /\ info = <<>>
    /\ resp = SemResposta
    /\ execucoes = {}
    /\ entrada = SemEntrada
    /\ saida = SemSaida
    /\ cache = <<>>
    /\ cache_feriados = <<>>
    /\ colacao = "ci"

(* CacheManager.set_metricas_gerais: the value is stamped with cached_at *)
SetMetricasGerais(data_inicio, data_fim, metricas) ==
    /\ cache' = backend_set(chave_metricas_gerais(data_inicio, data_fim),
                            [dados |-> metricas, cached_at |-> now], TTL_METRICAS_GERAIS)
    /\ resp' = [op |-> "set_metricas_gerais"]
    /\ UNCHANGED <<now, chamados, pausas, calendario, info, execucoes, chamada, cache_feriados,
                 colacao>>

(* CacheManager.set_metricas_por_prioridade *)
SetMetricasPorPrioridade(data_inicio, data_fim, metricas) ==
    /\ cache' = backend_set(chave_metricas_prioridade(data_inicio, data_fim),
                            metricas, TTL_METRICAS_PRIORIDADE)
    /\ resp' = [op |-> "set_metricas_por_prioridade"]
    /\ UNCHANGED <<now, chamados, pausas, calendario, info, execucoes, chamada, cache_feriados,
                 colacao>>

(* CacheManager.get_metricas_gerais, get_metricas_por_prioridade *)
GetDoCache(op, key) ==
    /\ cache' = storage_apos_get(key)
    /\ resp' = [op |-> op, key |-> key, valor |-> backend_get(key)]
    /\ UNCHANGED <<now, chamados, pausas, calendario, info, execucoes, chamada, cache_feriados,
                 colacao>>

GetMetricasGerais(data_inicio, data_fim) ==
    GetDoCache("get_metricas_gerais", chave_metricas_gerais(data_inicio, data_fim))

GetMetricasPorPrioridade(data_inicio, data_fim) ==
    GetDoCache("get_metricas_por_prioridade", chave_metricas_prioridade(data_inicio, data_fim))

(* CacheManager.invalidar_metricas: a comment and a log line *)
InvalidarMetricas ==
    /\ cache' = cache
    /\ resp' = [op |-> "invalidar_metricas"]
    /\ UNCHANGED <<now, chamados, pausas, calendario, info, execucoes, chamada, cache_feriados,
                 colacao>>

NextCacheManager ==
    \/ TickCache
    \/ \E per \in PeriodosCache, m \in ValoresCache : SetMetricasGerais(per[1], per[2], m)
    \/ \E per \in PeriodosCache, m \in ValoresCache : SetMetricasPorPrioridade(per[1], per[2], m)
    \/ \E per \in PeriodosCache : GetMetricasGerais(per[1], per[2])
    \/ \E per \in PeriodosCache : GetMetricasPorPrioridade(per[1], per[2])
    \/ InvalidarMetricas
    \/ LimparCache

SpecCacheManager == InitCacheManager /\ [][NextCacheManager]_vars

----------------------------------------------------------------------------
(* The requests *)

RequestsVida ==
    \/ \E id \in ChamadoIds, novo \in ALLOWED_STATUSES : AtualizarStatus(id, novo)
    \/ \E id \in ChamadoIds, st \in {"Aguardando", "Em atendimento"} : PausarSla(id, st)
    \/ \E id \in ChamadoIds : CriarPausa(id)
    \/ \E p \in {q \in pausas : q.fim = None} : RetomarPausa(p)
    \/ \E id \in ChamadoIds : ObterSlaChamado(id)

(* The life of one ticket *)
Next ==
    \/ Tick
    \/ RequestsVida

Spec == Init /\ [][Next]_vars

(* The status updates of one ticket alone *)
NextStatus ==
    \/ Tick
    \/ \E id \in ChamadoIds, novo \in ALLOWED_STATUSES : AtualizarStatus(id, novo)

SpecStatus == Init /\ [][NextStatus]_vars

(* Several tickets, their deletion, and the aggregates over them *)
NextAgregado ==
    \/ TickAgregado
    \/ \E id \in ChamadoIds : DeletarChamado(id)
    \/ \E id \in ChamadoIds \cup {0} : ObterSlaChamado(id)
    \/ \E per \in Periodos : ObterDashboard(per[1], per[2])
    \/ \E falhas \in SUBSET recalcular_chamados : RecalcularTodos(falhas)

SpecAgregado == InitAgregado /\ [][NextAgregado]_vars

(* The dashboard alone, over tickets that age and get deleted *)
NextPainel ==
    \/ TickAgregado
    \/ \E id \in ChamadoIds : DeletarChamado(id)
    \/ \E per \in Periodos : ObterDashboard(per[1], per[2])

SpecPainel == InitAgregado /\ [][NextPainel]_vars

(* The dashboard over one ticket that ages and changes status *)
NextPainelVida ==
    \/ Tick
    \/ \E id \in ChamadoIds, novo \in ALLOWED_STATUSES : AtualizarStatus(id, novo)
    \/ \E per \in Periodos : ObterDashboard(per[1], per[2])

SpecPainelVida == Init /\ [][NextPainelVida]_vars

(* The evaluations alone: the single-ticket endpoint, the dashboard and the
   batch recompute over tickets in every status *)
NextLeitura ==
    \/ \E id \in ChamadoIds \cup {0} : ObterSlaChamado(id)
    \/ \E per \in Periodos : ObterDashboard(per[1], per[2])
    \/ \E falhas \in SUBSET recalcular_chamados : RecalcularTodos(falhas)

SpecLeitura == InitAgregado /\ [][NextLeitura]_vars

(* The pauses alone: opened and closed by the status hook and by hand, a
   closed one being asked to close again *)
NextPausas ==
    \/ Tick
    \/ \E id \in ChamadoIds, st \in {"Aguardando", "Em atendimento"} : PausarSla(id, st)
    \/ \E id \in ChamadoIds : CriarPausa(id)
    \/ \E p \in pausas : RetomarPausa(p)

SpecPausas == Init /\ [][NextPausas]_vars

(* The refreshes, each one a start and an end with the others in between *)
NextConcorrente ==
    \/ TickAgregado
    \/ \E origem \in Origens : IniciarAtualizacao(origem)
    \/ \E origem \in Origens, falhas \in SUBSET recalcular_chamados :
          ConcluirAtualizacao(origem, falhas)

SpecConcorrente == InitAgregado /\ [][NextConcorrente]_vars

----------------------------------------------------------------------------
(* The business-hours functions called directly, on spans of the two weeks
   after the cutover *)

(* Monday 2026-02-16 07:00, 09:00, 10:30, 12:00, 19:00; Tuesday 09:00, 12:00;
   Friday 2026-02-20 17:00; Saturday 10:00; Monday 2026-02-23 09:00 *)
InstantesCalendario ==
    {4740, 4860, 4950, 5040, 5460, 6300, 6480, 11100, 12120, 14940}

(* sla_feriado: empty, or Tuesday 2026-02-17 (Carnival) active *)
FeriadosCalendario == {{}, {4}}

(* sla_pausa: empty, or one closed pause of ticket 1 from Monday 12:00 to
   Tuesday 09:00, duracao_horas (wall clock, in minutes) as retomar stores it *)
PausaNoturna ==
    [id |-> 1, chamado_id |-> 1, inicio |-> 5040, fim |-> 6300,
     duracao_horas |-> 6300 - 5040, tipo |-> "status"]

InitCalendario ==
    /\ now = NowInit
    /\ chamados = <<>>
    /\ pausas \in {{}, {PausaNoturna}}
    /\ configs = {}
    /\ feriados \in FeriadosCalendario
    /\ horarios = {}
    /\ info = <<>>
    /\ resp = SemResposta
    /\ execucoes = {}
    /\ entrada \in [inicio : InstantesCalendario \cup {None},
                    fim : InstantesCalendario \cup {None}]
    /\ saida = SemSaida
    /\ cache = <<>>
    /\ cache_feriados = <<>>
    /\ colacao = "ci"

(* ServicoMetricasSLA._horas_uteis(inicio, fim) *)
HorasUteis ==
    /\ saida' = [saida EXCEPT !.metricas = horas_uteis(entrada.inicio, entrada.fim)]
    /\ UNCHANGED <<now, chamados, pausas, calendario, info, resp, execucoes, entrada, caches,
                 colacao>>

(* CalculadorSLA.calcular_horas_uteis(data_inicio, data_fim) *)
CalcularHorasUteis ==
    /\ saida' = [saida EXCEPT
                    !.calculador = calcular_horas_uteis(entrada.inicio, entrada.fim)]
    /\ UNCHANGED <<now, chamados, pausas, calendario, info, resp, execucoes, entrada, caches,
                 colacao>>

(* ServicoMetricasSLA._horas_uteis_com_pausas(inicio, fim, pausas), which
   calcular_sla_chamado calls with instants that are not None *)
HorasUteisComPausas ==
    /\ entrada.inicio # None
    /\ entrada.fim # None
    /\ saida' = [saida EXCEPT
                    !.com_pausas = horas_uteis_com_pausas(entrada.inicio, entrada.fim,
                                                          pausas, now)]
    /\ UNCHANGED <<now, chamados, pausas, calendario, info, resp, execucoes, entrada, caches,
                 colacao>>

NextCalendario ==
    \/ HorasUteis
    \/ CalcularHorasUteis
    \/ HorasUteisComPausas

SpecCalendario == InitCalendario /\ [][NextCalendario]_vars

----------------------------------------------------------------------------
(* The business-hours functions called on two adjacent spans and on their
   union *)

(* Monday 2026-02-16 08:00, 08:20, 08:40, 09:00, 19:00; Tuesday 09:00;
   Saturday 10:00; Monday 2026-02-23 09:00: all after the cutover *)
InstantesAdjacentes == {4800, 4820, 4840, 4860, 5460, 6300, 12120, 14940}

SemSaidaAdjacente == [ab |-> None, bc |-> None, ac |-> None]

InitAdjacentes ==
    /\ now = NowInit
    /\ chamados = <<>>
    /\ pausas = {}
    /\ configs = {}
    /\ feriados \in FeriadosCalendario
    /\ horarios = {}
    /\ info = <<>>
    /\ resp = SemResposta
    /\ execucoes = {}
    /\ entrada \in {e \in [a : InstantesAdjacentes, b : InstantesAdjacentes,
                           c : InstantesAdjacentes] : e.a <= e.b /\ e.b <= e.c}
    /\ saida = [metricas |-> SemSaidaAdjacente, calculador |-> SemSaidaAdjacente]
    /\ cache = <<>>
    /\ cache_feriados = <<>>
    /\ colacao = "ci"

(* ServicoMetricasSLA._horas_uteis on (a, b), (b, c) and (a, c) *)
HorasUteisAdjacentes ==
    /\ saida' = [saida EXCEPT !.metricas = [ab |-> horas_uteis(entrada.a, entrada.b),
                                            bc |-> horas_uteis(entrada.b, entrada.c),
                                            ac |-> horas_uteis(entrada.a, entrada.c)]]
    /\ UNCHANGED <<now, chamados, pausas, calendario, info, resp, execucoes, entrada, caches,
                 colacao>>

(* CalculadorSLA.calcular_horas_uteis on (a, b), (b, c) and (a, c) *)
CalcularHorasUteisAdjacentes ==
    /\ saida' = [saida EXCEPT
                    !.calculador = [ab |-> calcular_horas_uteis(entrada.a, entrada.b),
                                    bc |-> calcular_horas_uteis(entrada.b, entrada.c),
                                    ac |-> calcular_horas_uteis(entrada.a, entrada.c)]]
    /\ UNCHANGED <<now, chamados, pausas, calendario, info, resp, execucoes, entrada, caches,
                 colacao>>

NextAdjacentes ==
    \/ HorasUteisAdjacentes
    \/ CalcularHorasUteisAdjacentes

SpecAdjacentes == InitAdjacentes /\ [][NextAdjacentes]_vars

----------------------------------------------------------------------------
(* The holidays table edited while CalculadorSLA instances are alive.  An
   instance is created by a request or by a run of the scheduler and keeps
   the holidays of a year from its first read on (all days modelled are of
   2026); the routes of routes.py commit their change and return: none of
   them calls invalidar_cache, and no instance is within their reach. *)

Instancias == {"scheduler", "rota_recalcular"}
DiasFeriado == {4, 5}

InitFeriados ==
    /\ now = NowInit
    /\ chamados = <<>>
    /\ pausas = {}
    /\ configs = {}
    /\ feriados \in FeriadosCalendario
    /\ horarios = {}
    /\ info = <<>>
    /\ resp = SemResposta
    /\ execucoes = {}
    /\ entrada = SemEntrada
    /\ saida = SemSaida
    /\ cache = <<>>
    /\ cache_feriados = <<>>
    /\ colacao = "ci"

(* CalculadorSLA(db): __init__ *)
NovaInstancia(o) ==
    /\ o \notin DOMAIN cache_feriados
    /\ cache_feriados' = (o :> [carregado |-> FALSE, dias |-> {}]) @@ cache_feriados
    /\ UNCHANGED <<now, chamados, pausas, calendario, info, resp, execucoes, chamada, cache,
                 colacao>>

(* the request or the run ends and its instance with it *)
FimInstancia(o) ==
    /\ o \in DOMAIN cache_feriados
    /\ cache_feriados' = [x \in (DOMAIN cache_feriados) \ {o} |-> cache_feriados[x]]
    /\ UNCHANGED <<now, chamados, pausas, calendario, info, resp, execucoes, chamada, cache,
                 colacao>>

(* _carregar_feriados(ano) of instance o: the cached list, or the active rows *)
carregar_feriados(o) ==
    IF cache_feriados[o].carregado THEN cache_feriados[o].dias ELSE feriados

(* eh_dia_util(data) of instance o *)
EhDiaUtil(o, d) ==
    /\ o \in DOMAIN cache_feriados
    /\ cache_feriados' = [cache_feriados EXCEPT
                             ![o] = [carregado |-> TRUE, dias |-> carregar_feriados(o)]]
    /\ resp' = [op |-> "eh_dia_util", instancia |-> o, dia |-> d,
                valor |-> (weekday(d) < 5 /\ d \notin carregar_feriados(o))]
    /\ UNCHANGED <<now, chamados, pausas, calendario, info, execucoes, chamada, cache,
                 colacao>>

(* POST /feriado *)
CriarFeriado(d) ==
    /\ IF d \in feriados
       THEN /\ resp' = [op |-> "feriado", status_code |-> 400]
            /\ feriados' = feriados
       ELSE /\ resp' = [op |-> "feriado", status_code |-> 201]
            /\ feriados' = feriados \cup {d}
    /\ UNCHANGED <<now, chamados, pausas, configs, horarios, info, execucoes, chamada, caches,
                 colacao>>

(* PUT /feriado/{id}: the holiday of day d moved to day nd *)
AtualizarFeriado(d, nd) ==
    /\ IF d \notin feriados
       THEN /\ resp' = [op |-> "feriado", status_code |-> 404]
            /\ feriados' = feriados
       ELSE /\ resp' = [op |-> "feriado", status_code |-> 200]
            /\ feriados' = (feriados \ {d}) \cup {nd}
    /\ UNCHANGED <<now, chamados, pausas, configs, horarios, info, execucoes, chamada, caches,
                 colacao>>

(* DELETE /feriado/{id} *)
DeletarFeriado(d) ==
    /\ IF d \notin feriados
       THEN /\ resp' = [op |-> "feriado", status_code |-> 404]
            /\ feriados' = feriados
       ELSE /\ resp' = [op |-> "feriado", status_code |-> 204]
            /\ feriados' = feriados \ {d}
    /\ UNCHANGED <<now, chamados, pausas, configs, horarios, info, execucoes, chamada, caches,
                 colacao>>

NextFeriados ==
    \/ \E o \in Instancias : NovaInstancia(o)
    \/ \E o \in Instancias : FimInstancia(o)
    \/ \E o \in Instancias, d \in DiasFeriado : EhDiaUtil(o, d)
    \/ \E d \in DiasFeriado : CriarFeriado(d)
    \/ \E d \in DiasFeriado, nd \in DiasFeriado : AtualizarFeriado(d, nd)
    \/ \E d \in DiasFeriado : DeletarFeriado(d)

SpecFeriados == InitFeriados /\ [][NextFeriados]_vars

----------------------------------------------------------------------------
(* The configurations edited through routes.py.  The filter
   ConfiguracaoSLA.prioridade == x and the unique index of the column compare
   as the collation of the database does: without regard to case under the
   default collations of MySQL, exactly under a binary or case-sensitive
   one.  The code asks for neither. *)

Colacoes == {"ci", "cs"}

iguais(a, b) == IF colacao = "ci" THEN lower(a) = lower(b) ELSE a = b

InitConfig ==
    /\ now = NowInit
    /\ chamados = <<>>
    /\ pausas = {}
    /\ configs = {}
    /\ feriados = {}
    /\ horarios = {}
    /\ info = <<>>
    /\ resp = SemResposta
    /\ execucoes = {}
    /\ entrada = SemEntrada
    /\ saida = SemSaida
    /\ cache = <<>>
    /\ cache_feriados = <<>>
    /\ colacao \in Colacoes

(* POST /config; i is the id the database gives the new row *)
CriarConfiguracao(prioridade, ativo, i) ==
    /\ \A c \in configs : c.id < i
    /\ IF \E c \in configs : iguais(c.prioridade, prioridade)
       THEN /\ resp' = [op |-> "config", status_code |-> 400]
            /\ configs' = configs
       ELSE /\ resp' = [op |-> "config", status_code |-> 201]
            /\ configs' = configs \cup
                   {[id |-> i, prioridade |-> prioridade, tempo_resposta_horas |-> 2,
                     tempo_resolucao_horas |-> 8, percentual_risco |-> 80,
                     ativo |-> ativo]}
    /\ UNCHANGED <<now, chamados, pausas, feriados, horarios, info, execucoes, chamada,
                   caches, colacao>>

(* PUT /config/{config_id}: the fields of ConfiguracaoSLAUpdate, which has no
   prioridade; of them the model keeps ativo *)
AtualizarConfiguracao(config_id, ativo) ==
    /\ IF \A c \in configs : c.id # config_id
       THEN /\ resp' = [op |-> "config", status_code |-> 404]
            /\ configs' = configs
       ELSE /\ resp' = [op |-> "config", status_code |-> 200]
            /\ configs' = {IF c.id = config_id THEN [c EXCEPT !.ativo = ativo] ELSE c :
                              c \in configs}
    /\ UNCHANGED <<now, chamados, pausas, feriados, horarios, info, execucoes, chamada,
                   caches, colacao>>

(* DELETE /config/{config_id} *)
DeletarConfiguracao(config_id) ==
    /\ IF \A c \in configs : c.id # config_id
       THEN /\ resp' = [op |-> "config", status_code |-> 404]
            /\ configs' = configs
       ELSE /\ resp' = [op |-> "config", status_code |-> 204]
            /\ configs' = {c \in configs : c.id # config_id}
    /\ UNCHANGED <<now, chamados, pausas, feriados, horarios, info, execucoes, chamada,
                   caches, colacao>>

NextConfig ==
    \/ \E prioridade \in {"Alta", "alta", "Normal"}, ativo \in BOOLEAN, i \in 1..MaxConfigId :
          CriarConfiguracao(prioridade, ativo, i)
    \/ \E config_id \in 1..MaxConfigId, ativo \in BOOLEAN :
          AtualizarConfiguracao(config_id, ativo)
    \/ \E config_id \in 1..MaxConfigId : DeletarConfiguracao(config_id)

SpecConfig == InitConfig /\ [][NextConfig]_vars

----------------------------------------------------------------------------
(* Claims C1 - C10 *)

(* C1: every ticket has at most one pause interval whose end is null, after any
   sequence of status changes, automatic pause/resume calls and manual pause
   creations.  Stated as the claim; POST /pausa (criar_pausa) inserts an open
   pause without looking for one that is already open. *)
C1_AtMostOneOpenPause ==
    \A id \in ChamadoIds : Cardinality(PausasAbertas(id)) <= 1

(* C2: after every completed status update (atualizar_status followed by
   pausar_sla_chamado) the ticket has an open pause iff the new status is a
   pausing status: entering one with no pause open opens an automatic pause
   that starts now, leaving one closes every open pause now. *)
C2_StatusUpdatePauses ==
    [][\A id \in ChamadoIds, novo \in ALLOWED_STATUSES :
          AtualizarStatus(id, novo) =>
              /\ (PausasAbertas(id)' # {}) <=> (novo \in STATUS_PAUSADOS)
              /\ (novo \in STATUS_PAUSADOS /\ PausasAbertas(id) = {}) =>
                     \E p \in PausasAbertas(id)' :
                         p \notin pausas /\ p.tipo = "status" /\ p.inicio = now
              /\ (novo \notin STATUS_PAUSADOS) =>
                     \A p \in PausasAbertas(id) :
                         \E q \in pausas' : q.id = p.id /\ q.fim = now]_vars

(* C2 witness: a ticket that entered a pausing status, left it (the automatic
   pause is closed) and entered it again (a second automatic pause is open) *)
C2_Witness ==
    \E id \in ChamadoIds :
        /\ chamados[id].status \in STATUS_PAUSADOS
        /\ \E p \in PausasAbertas(id) : p.tipo = "status"
        /\ \E q \in PausasDe(id) : q.tipo = "status" /\ q.fim # None /\ q.fim > q.inicio

(* C3: for a ticket in a Final status the clocks are stopped: while the ticket,
   its pauses and the configuration do not change, evaluating it at a later
   current time yields the same result.  Stated as the claim; a ticket that
   reaches Expirado has neither data_conclusao nor cancelado_em (nothing sets
   cancelado_em), so its reference end is the current time. *)
C3_FinalEvaluationFrozen ==
    [][\A id \in ChamadoIds :
          (chamados[id].status \in STATUS_FINAIS
              /\ UNCHANGED <<chamados, pausas, calendario>>)
          => calcular_sla_chamado(id, now)' = calcular_sla_chamado(id, now)]_vars

(* C4: worked + paused = business_hours_between(open, end) for every
   combination of closed pauses of the ticket, here with end = the current
   time and granted one rounding unit (0.0001 h) per pause.  Stated as the
   claim; two pauses that overlap (see C1) are both subtracted and the worked
   hours are floored at 0. *)
C4_PauseAccounting ==
    \A id \in ChamadoIds :
        LET fechadas == {p \in PausasDe(id) : p.fim # None}
            h == horas_uteis_com_pausas(chamados[id].data_abertura, now, fechadas, now)
            bruto == horas_uteis(chamados[id].data_abertura, now)
            dif == h.trab + h.paus - bruto
        IN  dif <= Cardinality(fechadas) /\ -dif <= Cardinality(fechadas)

(* the tickets opened at or after the cutover and not deleted *)
PosCorte == {id \in ChamadoIds : chamados[id].data_abertura >= SLA_DATA_INICIO}
NaoDeletados == {id \in ChamadoIds : chamados[id].deletado_em = None}

(* C5: a ticket opened before the cutover never yields an evaluate result and is
   never counted: not in the dashboard totals, not in the statistics of the
   batch recompute.  Stated as the claim; recalcular_todos selects every
   ticket that is not deleted and stores a result for each. *)
C5_CutoverExcluded ==
    /\ \A id \in ChamadoIds \ PosCorte : calcular_sla_chamado(id, now) = SemResultado
    /\ resp.op = "dashboard" =>
           resp.body.total_chamados <= Cardinality(PosCorte \cap NaoDeletados)
    /\ resp.op = "recalcular" =>
           resp.body.total_processados <= Cardinality(PosCorte \cap NaoDeletados)
    /\ DOMAIN info \subseteq PosCorte

(* exactly one of the three classes of a clock *)
UmaClasse(r) ==
    \/ r.em_dia /\ ~r.em_risco /\ ~r.vencida
    \/ ~r.em_dia /\ r.em_risco /\ ~r.vencida
    \/ ~r.em_dia /\ ~r.em_risco /\ r.vencida

(* a clock of calcular_sla_chamado: hours in 0.0001 h, percentage in 0.1 % *)
ClasseMetricas(r, risco) ==
    /\ UmaClasse(r)
    /\ r.vencida => r.trab >= r.lim * 10000
    /\ r.em_risco => r.pct >= risco * 10 /\ ~r.vencida

(* a clock of calcular_sla: percentage in 0.01 %, 100 % is worked = limit *)
ClasseCalculador(r, risco) ==
    /\ UmaClasse(r)
    /\ r.vencida => r.percentual >= 10000
    /\ r.em_risco => r.percentual >= risco * 100 /\ ~r.vencida

(* C6: for every evaluated ticket and each clock exactly one of on-time,
   at-risk, breached is true; breached implies worked hours >= limit, at-risk
   implies percentage >= risk threshold and not breached.  Both evaluators. *)
C6_ClassificationExclusive ==
    \A id \in ChamadoIds :
        LET s == calcular_sla_chamado(id, now)
            k == calcular_sla(id, now)
            risco == config_do_chamado(chamados[id]).percentual_risco
            riscoK == obter_configuracao_sla(chamados[id].prioridade).percentual_risco
        IN  /\ s # SemResultado =>
                   ClasseMetricas(s.resolucao, risco) /\ ClasseMetricas(s.resposta, risco)
            /\ k.tipo = "sla" =>
                   ClasseCalculador(k.resolucao, riscoK) /\ ClasseCalculador(k.resposta, riscoK)

(* C6 witness: one ticket whose resolution clock is at risk while its response
   clock is breached, in both evaluators *)
C6_Witness ==
    \E id \in ChamadoIds :
        /\ calcular_sla_chamado(id, now) # SemResultado
        /\ calcular_sla_chamado(id, now).resolucao.em_risco
        /\ calcular_sla_chamado(id, now).resposta.vencida
        /\ calcular_sla(id, now).resolucao.em_risco
        /\ calcular_sla(id, now).resposta.vencida

(* C7: a ticket in a Final status is never reported breached or at risk on the
   resolution clock, whatever its worked hours and limit.  Both evaluators. *)
C7_FinalNeverBreached ==
    \A id \in ChamadoIds :
        chamados[id].status \in STATUS_FINAIS =>
            LET s == calcular_sla_chamado(id, now)
                k == calcular_sla(id, now)
            IN  /\ s # SemResultado => ~s.resolucao.vencida /\ ~s.resolucao.em_risco
                /\ ~k.resolucao.vencida /\ ~k.resolucao.em_risco

(* C7 witness: a Final ticket whose worked hours reached the resolution limit *)
C7_Witness ==
    \E id \in ChamadoIds :
        /\ chamados[id].status \in STATUS_FINAIS
        /\ calcular_sla_chamado(id, now) # SemResultado
        /\ calcular_sla_chamado(id, now).resolucao.trab
               >= calcular_sla_chamado(id, now).resolucao.lim * 10000
        /\ calcular_sla(id, now).resolucao.percentual >= 10000

(* C8: once the first response of a ticket is set, its response clock is
   measured over [open, first response] only and is frozen: the worked hours
   are the business hours between the opening and the first response (less
   the pauses, in calcular_sla_chamado), at the current time and at every
   later one.  Stated as the claim, for both evaluators; calcular_sla computes
   the response clock only while there is no first response and reports
   zero hours afterwards. *)
C8_ResponseMeasuredToFirstResponse ==
    \A id \in ChamadoIds :
        LET c == chamados[id]
            s == calcular_sla_chamado(id, now)
            k == calcular_sla(id, now)
        IN  c.data_primeira_resposta # None =>
                /\ s # SemResultado =>
                       /\ s.resposta.trab =
                              horas_uteis_com_pausas(c.data_abertura, c.data_primeira_resposta,
                                                     PausasDe(id), now).trab
                       /\ \A i \in 1..Len(Instantes) :
                              Instantes[i] > now =>
                                  calcular_sla_chamado(id, Instantes[i]).resposta = s.resposta
                /\ k.tipo = "sla" =>
                       k.resposta.decorrido =
                           round2(calcular_horas_uteis(c.data_abertura, c.data_primeira_resposta))

(* C9: a soft-deleted ticket is excluded from every SLA computation: the
   single-ticket entry point answers as for a ticket that yields nothing, the
   dashboard lists and totals leave it out, the batch recompute does not
   process it.  Stated as the claim; SlaService.calcular_sla_chamado looks the
   ticket up by id alone. *)
C9_DeletedExcluded ==
    /\ (resp.op = "sla_chamado" /\ resp.chamado_id \in ChamadoIds \ NaoDeletados) =>
           resp.status_code = 404
    /\ resp.op = "dashboard" =>
           /\ resp.body.total_chamados <= Cardinality(NaoDeletados)
           /\ (resp.body.lista_em_risco \cup resp.body.lista_vencidos
                  \cup resp.body.lista_pausados) \subseteq NaoDeletados
    /\ resp.op = "recalcular" =>
           resp.body.total_processados <= Cardinality(NaoDeletados)

(* C10: when no active configuration matches the priority of a ticket and there
   is no default ("normal") configuration, the evaluation of a ticket opened
   after the cutover answers with a result whose metrics are all zero.  Stated
   as the claim; calcular_sla_chamado returns None and the endpoint answers
   404. *)
C10_NoConfigZeroed ==
    (/\ resp.op = "sla_chamado"
     /\ resp.chamado_id \in PosCorte
     /\ config_do_chamado(chamados[resp.chamado_id]) = SemConfig) =>
        /\ resp.status_code = 200
        /\ resp.body # SemResultado

(* C11: the single-ticket endpoint answers 404 only when the ticket does not
   exist; an existing ticket without a matching configuration never gets the
   not-found answer.  Stated as the claim; calcular_sla_chamado returns None
   for a missing configuration too, and the endpoint answers 404 for every
   None (see C10). *)
C11_NotFoundOnlyWhenMissing ==
    (resp.op = "sla_chamado" /\ resp.status_code = 404) =>
        resp.chamado_id \notin ChamadoIds

(* C12: at most one full recompute (recalcular_todos and the cache refresh
   after it) is in flight at any time, whether the scheduler or a manual
   refresh started it.  Stated as the claim; no caller takes a lock. *)
C12_SingleRecomputeInFlight == Cardinality(execucoes) <= 1

(* C13: when the evaluation of one ticket fails during the batch recompute,
   the batch goes on with the other tickets, stores their results and reports
   how many failed.  Stated as the claim; one failure leaves the whole batch
   unstored and no count is returned. *)
C13_BatchSurvivesFailure ==
    [][\A falhas \in SUBSET recalcular_chamados :
          (falhas # {} /\ RecalcularTodos(falhas)) =>
              /\ \A id \in recalcular_chamados \ falhas :
                    /\ id \in DOMAIN info'
                    /\ info'[id].ultima_atualizacao = now
              /\ resp'.op = "recalcular"
              /\ resp'.body.total_processados =
                    Cardinality(recalcular_chamados) - Cardinality(falhas)]_vars

(* C14: for every period, the tickets the dashboard selects contain every
   non-deleted ticket opened since the cutover whose status is active or
   paused, and a non-deleted final ticket opened since the cutover if and only
   if it was opened within [period start, period end]. *)
C14_DashboardPopulation ==
    \A per \in Periodos :
        \A id \in PosCorte \cap NaoDeletados :
            /\ chamados[id].status \in (STATUS_ATIVOS \cup STATUS_PAUSADOS) =>
                  id \in dashboard_chamados(periodo_inicio(per[1], per[2], now),
                                            periodo_fim(per[2], now))
            /\ chamados[id].status \in STATUS_FINAIS =>
                  (id \in dashboard_chamados(periodo_inicio(per[1], per[2], now),
                                             periodo_fim(per[2], now))
                   <=> /\ chamados[id].data_abertura >= periodo_inicio(per[1], per[2], now)
                       /\ chamados[id].data_abertura <= periodo_fim(per[2], now))

(* the dashboard of a period that starts after both tickets were opened: the
   open one is counted, the final one is not *)
C14_Witness ==
    /\ resp.op = "dashboard"
    /\ resp.body.periodo_inicio = 4900
    /\ resp.body.chamados_abertos = 1
    /\ resp.body.total_chamados = 1
    /\ \E id \in PosCorte \cap NaoDeletados :
          /\ chamados[id].status \in STATUS_FINAIS
          /\ chamados[id].data_abertura < 4900
    /\ \E id \in PosCorte \cap NaoDeletados :
          /\ chamados[id].status \in STATUS_ATIVOS
          /\ chamados[id].data_abertura < 4900

(* C15: the dashboard puts every evaluated ticket in exactly one of the
   buckets paused, breached, at-risk, on-time (in that order of priority), so
   the four counts add up to the total: the on-time tickets, which the payload
   reports as percentual_cumprimento, are the total less the three other
   buckets.  Stated as the claim; em_dia is the total less the at-risk and the
   breached tickets only, so a paused ticket is counted on time as well. *)
C15_BucketsPartitionTotal ==
    resp.op = "dashboard" =>
        /\ resp.body.lista_pausados \cap resp.body.lista_vencidos = {}
        /\ resp.body.lista_pausados \cap resp.body.lista_em_risco = {}
        /\ resp.body.lista_vencidos \cap resp.body.lista_em_risco = {}
        /\ resp.body.percentual_cumprimento =
              pct_de(resp.body.total_chamados - resp.body.chamados_pausados
                         - resp.body.chamados_vencidos - resp.body.chamados_em_risco,
                     resp.body.total_chamados)

(* the span of a direct call lies within day d *)
NoDia(d) ==
    /\ entrada.inicio # None /\ entrada.fim # None
    /\ entrada.inicio \div 1440 = d
    /\ entrada.fim \div 1440 = d

(* C16: an active holiday is not a business day and contributes no hours to
   business_hours_between, in either evaluator: a span within an active
   holiday has 0 business hours.  Stated as the claim; _eh_dia_util of
   metrics.py looks at the weekday only. *)
C16_HolidayContributesNothing ==
    \A d \in feriados :
        NoDia(d) => /\ saida.metricas \in {None, 0}
                    /\ saida.calculador \in {None, 0}

(* the pause from Monday 12:00 to Tuesday 09:00 lies within the span of a
   call of _horas_uteis_com_pausas that has returned, Tuesday being a
   business day *)
PausaNoturnaAvaliada ==
    /\ pausas = {PausaNoturna}
    /\ feriados = {}
    /\ entrada.inicio # None /\ entrada.fim # None
    /\ entrada.inicio <= PausaNoturna.inicio
    /\ entrada.fim >= PausaNoturna.fim
    /\ saida.com_pausas.paus # None

(* C17 as stated: the paused business hours taken off the resolution clock
   for a pause from Monday 12:00 to Tuesday 09:00 are exactly the Monday
   12:00-18:00 portion, 6 h. *)
C17_PausadoSoSegunda ==
    PausaNoturnaAvaliada => saida.com_pausas.paus = 60000

(* C17, amended: the paused business hours taken off the resolution clock for
   a pause from Monday 12:00 to Tuesday 09:00 are the business hours within
   the pause, Monday 12:00-18:00 and Tuesday 08:00-09:00, 7 h; the night
   between them counts for nothing; the worked hours are the business hours
   of the span less those 7 h. *)
C17_PausadoHorasUteisDaPausa ==
    PausaNoturnaAvaliada =>
        /\ saida.com_pausas.paus = 70000
        /\ saida.com_pausas.trab =
              Max(0, round4(minutos_uteis(entrada.inicio \div 1440,
                                          entrada.inicio, entrada.fim)) - 70000)

(* ticket opened Monday 09:00, evaluated Tuesday 12:00: 13 h of business
   hours, 7 h of them paused, 6 h worked *)
C17_Witness ==
    /\ PausaNoturnaAvaliada
    /\ entrada = [inicio |-> 4860, fim |-> 6480]
    /\ saida.com_pausas = [trab |-> 60000, paus |-> 70000]

(* The business time of a span, counted half hour by half hour (every
   instant drawn and both ends of the daily window are whole half hours): a
   half hour counts when it lies on Monday to Friday between 08:00 and 18:00. *)
MeiaHoraUtil(k) ==
    /\ weekday((k * 30) \div 1440) < 5
    /\ (k * 30) % 1440 >= HORA_INICIO
    /\ (k * 30) % 1440 < HORA_FIM

MinutosDeExpediente(inicio, fim) ==
    30 * Cardinality({k \in (inicio \div 30)..((fim \div 30) - 1) : MeiaHoraUtil(k)})

(* a direct call on a span inicio < fim with no active holiday on its days *)
SpanSemFeriado ==
    /\ entrada.inicio # None /\ entrada.fim # None
    /\ entrada.inicio < entrada.fim
    /\ \A d \in feriados : d < entrada.inicio \div 1440 \/ d > entrada.fim \div 1440

(* C18: in both evaluators the business hours of a span are the part of it
   that lies on Monday to Friday within the daily window: Saturday and Sunday
   contribute nothing, and the first and the last day are clipped to the part
   of the span inside the window; Friday 17:00 to Monday 09:00 is exactly 2 h. *)
C18_WeekendAndClipping ==
    /\ SpanSemFeriado =>
          /\ saida.metricas \in
                {None, round4(MinutosDeExpediente(entrada.inicio, entrada.fim))}
          /\ saida.calculador \in
                {None, MinutosDeExpediente(entrada.inicio, entrada.fim)}
    /\ entrada = [inicio |-> 11100, fim |-> 14940] =>
          /\ saida.metricas \in {None, 20000}
          /\ saida.calculador \in {None, 120}

(* Friday 2026-02-20 17:00 to Monday 2026-02-23 09:00, by both evaluators *)
C18_Witness ==
    /\ entrada = [inicio |-> 11100, fim |-> 14940]
    /\ saida.metricas = 20000
    /\ saida.calculador = 120

(* C19: business_hours_between returns 0 and does not raise when start >= end
   or when either instant is null, in both evaluators.  Stated as the claim;
   calcular_horas_uteis compares its arguments before any test for None. *)
C19_DegenerateSpanIsZero ==
    (entrada.inicio = None \/ entrada.fim = None \/ entrada.inicio >= entrada.fim) =>
        /\ saida.metricas \in {None, 0}
        /\ saida.calculador \in {None, 0}

(* a direct call on a span within the daily window of one business day *)
MesmoDiaUtil ==
    /\ entrada.inicio # None /\ entrada.fim # None
    /\ entrada.inicio < entrada.fim
    /\ NoDia(entrada.inicio \div 1440)
    /\ weekday(entrada.inicio \div 1440) < 5
    /\ entrada.inicio \div 1440 \notin feriados
    /\ entrada.inicio % 1440 >= HORA_INICIO
    /\ entrada.fim % 1440 <= HORA_FIM

(* C20: when start < end lie on the same business day within the daily
   window, business_hours_between is the duration end - start, in both
   evaluators (metrics.py rounds the hours to 4 decimals). *)
C20_SameDayIsWallClock ==
    MesmoDiaUtil =>
        /\ saida.metricas \in {None, round4(entrada.fim - entrada.inicio)}
        /\ saida.calculador \in {None, entrada.fim - entrada.inicio}

(* Monday 09:00 to 10:30 is 1.5 h by both evaluators *)
C20_Witness ==
    /\ MesmoDiaUtil
    /\ entrada = [inicio |-> 4860, fim |-> 4950]
    /\ saida.metricas = 15000
    /\ saida.calculador = 90

(* C21: when a ticket has two open pauses, the evaluation does not fail and
   uses only the one opened first: the paused hours are those of the closed
   pauses and of the earliest open pause, the overlapping open pauses are not
   both subtracted.  Stated as the claim; _horas_uteis_com_pausas adds up
   every row _pausas returns. *)
C21_EarliestOpenPauseOnly ==
    \A id \in ChamadoIds :
        Cardinality(PausasAbertas(id)) >= 2 =>
            LET primeira == CHOOSE p \in PausasAbertas(id) :
                                \A q \in PausasAbertas(id) : p.inicio <= q.inicio
                usadas == {p \in PausasDe(id) : p.fim # None} \cup {primeira}
            IN  horas_uteis_com_pausas(chamados[id].data_abertura, now,
                                       PausasDe(id), now).paus
                = horas_uteis_com_pausas(chamados[id].data_abertura, now,
                                         usadas, now).paus

(* C22: once a holiday has been created, changed or deleted, every
   business-day read that starts after the change returned sees the new
   table, never a value cached before it.  Stated as the claim; an instance
   that read the holidays before the change answers from its own list. *)
C22_ReadsSeeCalendarChange ==
    [][\A o \in Instancias, d \in DiasFeriado :
          EhDiaUtil(o, d) => resp'.valor = (weekday(d) < 5 /\ d \notin feriados)]_vars

(* C23: the evaluation of a ticket, the dashboard and the batch recompute
   only read the source data: a step that answers one of them leaves the
   tickets, the configurations and the pauses as they were; what it writes
   is the stored results. *)
C23_EvaluationReadOnly ==
    [][(/\ resp'.op \in {"sla_chamado", "dashboard", "recalcular", "recalcular_erro"}
        /\ (resp' # resp \/ info' # info))
       => UNCHANGED <<chamados, configs, pausas>>]_vars

(* the batch has stored results next to an open pause, a ticket and its
   configuration *)
C23_Witness ==
    /\ resp.op = "recalcular"
    /\ resp.body.total_processados = NumChamados
    /\ DOMAIN info = ChamadoIds
    /\ \E p \in pausas : p.fim = None
    /\ configs # {}

(* C24: after any sequence of creations, updates and deletions of
   configurations, at most one active configuration exists for a priority,
   priorities being compared as the evaluator looks them up, in lower case.
   Stated as the claim; the creation compares the priority as the database
   does, and a case-sensitive collation lets "Alta" and "alta" both in. *)
C24_OneActiveConfigPerPriority ==
    \A c1 \in configs, c2 \in configs :
        (c1.ativo /\ c2.ativo /\ lower(c1.prioridade) = lower(c2.prioridade)) => c1 = c2

(* C25: closing stamps the open pause with the instant of the call and with
   the wall-clock difference to its start, so every closed pause has
   fim >= inicio and duracao_horas = fim - inicio; with no open pause the
   close changes nothing and says so (alterado false from the status hook,
   400 from the manual close of a pause that is already closed). *)
PausaFechadaEm(p, t) == [p EXCEPT !.fim = t, !.duracao_horas = t - p.inicio]

C25_ClosePause ==
    [][/\ \A p \in pausas' :
            p.fim # None => (p.fim >= p.inicio /\ p.duracao_horas = p.fim - p.inicio)
       /\ (resp'.op = "pausar" /\ now' = now /\ resp'.status \notin STATUS_PAUSADOS) =>
            LET abertas == PausasAbertas(resp'.chamado_id) IN
            /\ resp'.alterado = (abertas # {})
            /\ pausas' = (pausas \ abertas) \cup {PausaFechadaEm(p, now) : p \in abertas}
       /\ (resp'.op = "retomar" /\ now' = now) =>
            \/ /\ resp'.status_code = 400
               /\ pausas' = pausas
            \/ /\ resp'.status_code = 200
               /\ \E p \in pausas :
                    /\ p.fim = None
                    /\ pausas' = (pausas \ {p}) \cup {PausaFechadaEm(p, now)}]_vars

(* a pause that lasted was closed, and a second close found nothing open *)
C25_Witness ==
    /\ resp.op = "pausar"
    /\ resp.status \notin STATUS_PAUSADOS
    /\ ~resp.alterado
    /\ \E p \in pausas : p.chamado_id = resp.chamado_id /\ p.fim # None /\ p.fim > p.inicio

(* C26: every run of the periodic update stores the general metrics of the
   7, 30, 60 and 90 day periods, the at-risk list, the breached list and the
   dashboard, so a read of any of those keys right after a run is a hit.
   Stated as the claim; the run stops at the first call of a method that
   ServicoMetricasSLA does not have and stores nothing. *)
C26_UpdateRunFillsCache ==
    (resp.op = "_atualizar_sla" /\ resp.em = now) =>
        \A k \in ChavesDaAtualizacao : cache_hit(k)

(* C27: once invalidar_metricas has returned, get_metricas_gerais and
   get_metricas_por_prioridade return None for every period cached before
   the call.  Stated as the claim; invalidar_metricas deletes nothing. *)
C27_InvalidarMetricasEmpties ==
    resp.op = "invalidar_metricas" =>
        \A k \in DOMAIN cache :
            k[1] \in {"metricas_gerais", "metricas_prioridade"} => ~cache_hit(k)

(* C28: over the status updates of a ticket, data_primeira_resposta is set
   once, by the first update that takes the ticket out of "Aberto", to the
   instant of that update; no later update overwrites or clears it, a return
   to "Aberto" and a second departure included. *)
C28_FirstResponseSetOnce ==
    [][\A id \in ChamadoIds :
        LET antes == chamados[id]
            depois == chamados'[id]
        IN  /\ antes.data_primeira_resposta # None =>
                depois.data_primeira_resposta = antes.data_primeira_resposta
            /\ (antes.data_primeira_resposta = None /\ depois.data_primeira_resposta # None) =>
                (antes.status = "Aberto" /\ depois.status # "Aberto"
                    /\ depois.data_primeira_resposta = now)
            /\ (antes.status = "Aberto" /\ depois.status # "Aberto") =>
                depois.data_primeira_resposta # None]_vars

(* the ticket is back in "Aberto" with the stamp of an earlier instant *)
C28_Witness ==
    \E id \in ChamadoIds :
        /\ chamados[id].status = "Aberto"
        /\ chamados[id].data_primeira_resposta # None
        /\ chamados[id].data_primeira_resposta < now

(* C29: in every dashboard payload the per-priority breakdown adds up to the
   global counts: over all priorities, total, em_risco, vencidos and pausados
   sum to total_chamados, chamados_em_risco, chamados_vencidos and
   chamados_pausados.  Stated as the claim; the breakdown counts a paused
   ticket whose resolution is breached or at risk under vencidos or em_risco
   too, and the global buckets count it under pausados only. *)
RECURSIVE SomaDe(_, _)
SomaDe(f, S) ==
    IF S = {} THEN 0
    ELSE LET p == CHOOSE q \in S : TRUE IN f[p] + SomaDe(f, S \ {p})

C29_BreakdownMatchesGlobal ==
    resp.op = "dashboard" =>
        LET pp == resp.body.por_prioridade
            P == DOMAIN pp
        IN  /\ SomaDe([p \in P |-> pp[p].total], P) = resp.body.total_chamados
            /\ SomaDe([p \in P |-> pp[p].em_risco], P) = resp.body.chamados_em_risco
            /\ SomaDe([p \in P |-> pp[p].vencidos], P) = resp.body.chamados_vencidos
            /\ SomaDe([p \in P |-> pp[p].pausados], P) = resp.body.chamados_pausados

(* C30: the business hours of two adjacent spans add up to those of their
   union, for instants a <= b <= c after the cutover, and no result is
   negative.  Stated as the claim, with equality. *)
C30_ExactlyAdditive ==
    /\ saida.metricas.ac # None =>
        /\ saida.metricas.ab + saida.metricas.bc = saida.metricas.ac
        /\ saida.metricas.ab >= 0 /\ saida.metricas.bc >= 0 /\ saida.metricas.ac >= 0
    /\ saida.calculador.ac # None =>
        /\ saida.calculador.ab + saida.calculador.bc = saida.calculador.ac
        /\ saida.calculador.ab >= 0 /\ saida.calculador.bc >= 0 /\ saida.calculador.ac >= 0

(* C30, amended: _horas_uteis rounds each result to 4 decimals, so the sum
   over two adjacent spans is within 0.0001 h of the result for their union;
   calcular_horas_uteis does not round and its minutes add up exactly; no
   result is negative. *)
C30_AdditiveUpToRounding ==
    /\ saida.metricas.ac # None =>
        /\ saida.metricas.ab + saida.metricas.bc - saida.metricas.ac \in {-1, 0, 1}
        /\ saida.metricas.ab >= 0 /\ saida.metricas.bc >= 0 /\ saida.metricas.ac >= 0
    /\ saida.calculador.ac # None =>
        /\ saida.calculador.ab + saida.calculador.bc = saida.calculador.ac
        /\ saida.calculador.ab >= 0 /\ saida.calculador.bc >= 0 /\ saida.calculador.ac >= 0

(* Monday 08:00, 08:20, 08:40: 0.3333 h and 0.3333 h against 0.6667 h *)
C30_Witness ==
    /\ entrada.a < entrada.b /\ entrada.b < entrada.c
    /\ saida.metricas.ac # None
    /\ saida.metricas.ab > 0 /\ saida.metricas.bc > 0
    /\ saida.metricas.ab + saida.metricas.bc = saida.metricas.ac - 1
    /\ saida.calculador.ac # None
    /\ saida.calculador.ab > 0 /\ saida.calculador.bc > 0

====
